---------------------------- MODULE Spec2Model ----------------------------
(***************************************************************************)
(* Model of the image-browsing widget of src/macos_122/src/main.cpp:       *)
(* ShowImageSubwindow and the helpers it calls (GetImageFiles, EndsWith,   *)
(* the stb_image decode and the OpenGL texture calls).                     *)
(*                                                                         *)
(* The widget's state is the set of function-local statics of              *)
(* ShowImageSubwindow (lines 133-141).  One action, ShowImageSubwindow,    *)
(* models one complete call: directory binding, texture load, thumbnail    *)
(* computation, the two buttons and the caption.                           *)
(***************************************************************************)
EXTENDS Integers, Sequences, FiniteSets, TLC

(***************************************************************************)
(* Bounds of the model.                                                    *)
(***************************************************************************)
\* number of render calls a behaviour makes
MaxFrames == 5

(***************************************************************************)
(* The file system the program runs against.  A file name is a stem and a  *)
(* suffix; a path is a directory string and a file name, as produced by    *)
(* entry.path().string() (line 123).                                       *)
(***************************************************************************)
File(stem, ext) == [stem |-> stem, ext |-> ext]

Path(dir, f) == [dir |-> dir, stem |-> f.stem, ext |-> f.ext]

\* directory strings a caller may pass; "./data" names the same directory as "data"
Dirs == {"data", "./data", "bad", "one", "empty", "missing"}

\* the directory on disk a directory string resolves to
PhysDir(d) == IF d = "./data" THEN "data" ELSE d

\* std::filesystem::exists(dirPath) && is_directory(dirPath)
DirExists(d) == PhysDir(d) # "missing"

\* the regular files of a directory, in enumeration order
DirEntries(d) ==
    CASE PhysDir(d) = "data"  -> << File("a", ".png"), File("b", ".jpg"),
                                    File("notes", ".txt"), File("c", ".jpeg") >>
      [] PhysDir(d) = "bad"   -> << File("p", ".png"), File("broken", ".jpg"),
                                    File("q", ".png") >>
      [] PhysDir(d) = "one"   -> << File("s", ".png") >>
      [] PhysDir(d) = "empty" -> << File("readme", ".txt"), File("SHOUT", ".PNG") >>
      [] OTHER                -> << >>

\* what an out-of-bounds read of image_files may yield besides a stale path
GarbagePath == [dir |-> "?", stem |-> "?", ext |-> "?"]

(***************************************************************************)
(* stbi_load: the decode of a file.  A readable image yields its native    *)
(* width and height (both at least 1); anything else yields no data.       *)
(***************************************************************************)
stbi_load(p) ==
    LET d == IF p = GarbagePath THEN "?" ELSE PhysDir(p.dir)
    IN  CASE d = "data" /\ p.stem = "a" /\ p.ext = ".png"  -> [ok |-> TRUE, w |-> 300, h |-> 150]
          [] d = "data" /\ p.stem = "b" /\ p.ext = ".jpg"  -> [ok |-> TRUE, w |-> 100, h |-> 200]
          [] d = "data" /\ p.stem = "c" /\ p.ext = ".jpeg" -> [ok |-> TRUE, w |-> 64, h |-> 64]
          [] d = "bad"  /\ p.stem = "p" /\ p.ext = ".png"  -> [ok |-> TRUE, w |-> 10, h |-> 20]
          [] d = "bad"  /\ p.stem = "q" /\ p.ext = ".png"  -> [ok |-> TRUE, w |-> 8, h |-> 8]
          [] d = "one"  /\ p.stem = "s" /\ p.ext = ".png"  -> [ok |-> TRUE, w |-> 2, h |-> 1]
          [] OTHER -> [ok |-> FALSE, w |-> 0, h |-> 0]

(***************************************************************************)
(* EndsWith and GetImageFiles (lines 111-130).                             *)
(***************************************************************************)
\* a path ends with a suffix that starts with "." exactly when its extension is it
EndsWith(p, suffix) == p.ext = suffix

IsImage(p) == EndsWith(p, ".png") \/ EndsWith(p, ".jpg") \/ EndsWith(p, ".jpeg")

RECURSIVE Scan(_, _)
Scan(dir, entries) ==
    IF entries = << >> THEN << >>
    ELSE LET p == Path(dir, Head(entries))
         IN  (IF IsImage(p) THEN << p >> ELSE << >>) \o Scan(dir, Tail(entries))

GetImageFiles(directory) ==
    IF ~DirExists(directory) THEN << >> ELSE Scan(directory, DirEntries(directory))


(***************************************************************************)
(* OpenGL texture objects.  gl maps each live texture name to the image    *)
(* whose pixels were uploaded to it.  Name 0 is never a texture.           *)
(***************************************************************************)
\* glGenTextures(1, &texture): an unused name, the lowest one
glGenTextures(g) ==
    CHOOSE n \in 1..(Cardinality(DOMAIN g) + 1) :
        /\ n \notin DOMAIN g
        /\ \A m \in 1..(n - 1) : m \in DOMAIN g

\* glTexImage2D on the freshly generated name
glTexImage2D(g, name, p) ==
    [n \in (DOMAIN g) \cup {name} |-> IF n = name THEN p ELSE g[n]]

\* glDeleteTextures(1, &texture): name 0 and unused names are silently ignored
glDeleteTextures(g, name) == [n \in (DOMAIN g) \ {name} |-> g[n]]

(***************************************************************************)
(* State.                                                                  *)
(***************************************************************************)
VARIABLES
    \* the statics of ShowImageSubwindow (lines 133-141)
    image_files, last_directory, current_image_index, texture, img_width, img_height,
    \* the OpenGL context's texture objects
    gl,
    \* the process has died on an out-of-bounds read
    crashed,
    \* what the most recent call of ShowImageSubwindow was given and did
    call,
    \* history: decode attempts, textures created, textures deleted,
    \* index-changing button presses, render calls
    nAttempts, nLoads, nReleases, nNav, frames

vars == << image_files, last_directory, current_image_index, texture, img_width,
           img_height, gl, crashed, call, nAttempts, nLoads, nReleases, nNav, frames >>

\* titles passed by callers; main passes the first one (line 289)
Titles == {"(Image Folder Navigator)", "(Second Navigator)"}

\* ImGui::Button returns true for at most one button per frame
Clicks == {"none", "prev", "next"}

\* the result of the thumbnail width computation
NoWidth == [kind |-> "none", num |-> 0, den |-> 0]

\* the statics as seen when control reaches the buttons
NoSnapshot == [reached |-> FALSE, idx |-> 0, texture |-> 0, gl |-> << >>, nReleases |-> 0]

\* outcomes of reading image_files[i] with i >= size(): the process dies, or
\* the read yields some bytes: a stale path or garbage
AllPaths == UNION { { Path(d, DirEntries(d)[k]) : k \in 1..Len(DirEntries(d)) } : d \in Dirs }

UBReads ==
    { [crash |-> TRUE, path |-> GarbagePath] }
        \cup { [crash |-> FALSE, path |-> p] : p \in AllPaths \cup {GarbagePath} }

UBCaptions == { [crash |-> TRUE], [crash |-> FALSE] }

Init ==
    /\ image_files = << >>
    /\ last_directory = ""
    /\ current_image_index = 0
    /\ texture = 0
    /\ img_width = 0
    /\ img_height = 0
    /\ gl = << >>
    /\ crashed = FALSE
    /\ call = [title |-> "", directory |-> "", click |-> "none", returned |-> FALSE,
               failed |-> FALSE, reads |-> {}, fixed_width |-> NoWidth,
               atButtons |-> NoSnapshot]
    /\ nAttempts = 0
    /\ nLoads = 0
    /\ nReleases = 0
    /\ nNav = 0
    /\ frames = 0

(***************************************************************************)
(* One call of ShowImageSubwindow, as stages over a record of the statics. *)
(***************************************************************************)
Enter(title, directory, click) ==
    [ image_files |-> image_files, last_directory |-> last_directory,
      current_image_index |-> current_image_index, texture |-> texture,
      img_width |-> img_width, img_height |-> img_height, gl |-> gl,
      crashed |-> FALSE, nAttempts |-> nAttempts, nLoads |-> nLoads,
      nReleases |-> nReleases, nNav |-> nNav,
      title |-> title, directory |-> directory, click |-> click,
      returned |-> FALSE, failed |-> FALSE, reads |-> {},
      fixed_width |-> NoWidth, atButtons |-> NoSnapshot ]

\* control has left the function: the early return of line 157, or a crash
Left(s) == s.returned \/ s.crashed

\* lines 135-138: only image_files and last_directory are assigned
BindDirectory(s) ==
    IF s.last_directory # s.directory
    THEN [s EXCEPT !.image_files = GetImageFiles(s.directory),
                   !.last_directory = s.directory]
    ELSE s

\* line 143 without the texture == 0 test: a load on every call
NeedsLoadAlways(s) == s.image_files # << >>

\* line 143
NeedsLoad(s) == s.texture = 0 /\ s.image_files # << >>

\* lines 143-159
LoadTexture(s, ub) ==
    IF ~NeedsLoad(s) THEN s
    ELSE LET i   == s.current_image_index
             inb == i < Len(s.image_files)
             r   == [s EXCEPT !.reads = @ \cup { << i, Len(s.image_files) >> }]
         IN  IF ~inb /\ ub.crash THEN [r EXCEPT !.crashed = TRUE]
             ELSE LET image_path == IF inb THEN s.image_files[i + 1] ELSE ub.path
                      data       == stbi_load(image_path)
                      name       == glGenTextures(s.gl)
                  IN  IF data.ok
                      THEN [r EXCEPT !.img_width = data.w,
                                     !.img_height = data.h,
                                     !.texture = name,
                                     !.gl = glTexImage2D(s.gl, name, image_path),
                                     !.nAttempts = @ + 1,
                                     !.nLoads = @ + 1]
                      ELSE [r EXCEPT !.nAttempts = @ + 1,
                                     !.failed = TRUE,
                                     !.returned = TRUE]

\* line 170
fixed_height == 150

\* line 171: fixed_height * (float(img_width) / img_height), kept as an exact ratio;
\* a zero img_height gives NaN (0/0) or infinity
ThumbnailWidth(w, h) ==
    IF h = 0
    THEN [kind |-> IF w = 0 THEN "nan" ELSE "inf", num |-> fixed_height * w, den |-> 0]
    ELSE [kind |-> "ratio", num |-> fixed_height * w, den |-> h]

\* lines 170-174
Thumbnail(s) ==
    IF Left(s) THEN s
    ELSE [s EXCEPT !.fixed_width = ThumbnailWidth(s.img_width, s.img_height)]

\* line 188 without the index test
PrevGuardMissing(s) == TRUE

\* line 188
PrevGuard(s) == s.current_image_index > 0

\* line 196 off by one
NextGuardOffByOne(s) == s.current_image_index < Len(s.image_files)

\* line 196
NextGuard(s) == s.current_image_index + 1 < Len(s.image_files)

\* lines 190-191 and 198-199
ReleaseTexture(s) ==
    [s EXCEPT !.gl = glDeleteTextures(s.gl, s.texture),
              !.nReleases = IF s.texture \in DOMAIN s.gl THEN @ + 1 ELSE @,
              !.texture = 0]

\* lines 187-193
PrevButton(s) ==
    IF s.click = "prev" /\ PrevGuard(s)
    THEN ReleaseTexture([s EXCEPT !.current_image_index = @ - 1, !.nNav = @ + 1])
    ELSE s

\* lines 195-201
NextButton(s) ==
    IF s.click = "next" /\ NextGuard(s)
    THEN ReleaseTexture([s EXCEPT !.current_image_index = @ + 1, !.nNav = @ + 1])
    ELSE s

\* lines 187-201
Buttons(s) ==
    IF Left(s) THEN s
    ELSE LET b == [s EXCEPT !.atButtons =
                        [reached |-> TRUE, idx |-> s.current_image_index,
                         texture |-> s.texture, gl |-> s.gl,
                         nReleases |-> s.nReleases]]
         IN  NextButton(PrevButton(b))

\* lines 207-209
Caption(s, ub) ==
    IF Left(s) \/ s.image_files = << >> THEN s
    ELSE LET i == s.current_image_index
             r == [s EXCEPT !.reads = @ \cup { << i, Len(s.image_files) >> }]
         IN  IF ~(i < Len(s.image_files)) /\ ub.crash
             THEN [r EXCEPT !.crashed = TRUE]
             ELSE r

\* lines 132-212, under one choice of what the out-of-bounds reads do
Run(title, directory, click, ub1, ub2) ==
    Caption(Buttons(Thumbnail(LoadTexture(
        BindDirectory(Enter(title, directory, click)), ub1))), ub2)

OutOfBounds(reads) == \E r \in reads : ~(r[1] < r[2])

\* every way the call can end.  The choices are consulted only at an
\* out-of-bounds read, so a run that makes none is the only outcome.
Outcomes(title, directory, click) ==
    LET crash == Run(title, directory, click,
                     [crash |-> TRUE, path |-> GarbagePath], [crash |-> TRUE])
    IN  IF ~OutOfBounds(crash.reads) THEN {crash}
        ELSE { Run(title, directory, click, ub1, ub2) :
                   ub1 \in UBReads, ub2 \in UBCaptions }

\* lines 132-212
ShowImageSubwindow(title, directory, click) ==
    /\ ~crashed
    /\ frames < MaxFrames
    /\ \E s \in Outcomes(title, directory, click) :
           /\ image_files' = s.image_files
           /\ last_directory' = s.last_directory
           /\ current_image_index' = s.current_image_index
           /\ texture' = s.texture
           /\ img_width' = s.img_width
           /\ img_height' = s.img_height
           /\ gl' = s.gl
           /\ crashed' = s.crashed
           /\ call' = [title |-> s.title, directory |-> s.directory, click |-> s.click,
                       returned |-> s.returned, failed |-> s.failed, reads |-> s.reads,
                       fixed_width |-> s.fixed_width, atButtons |-> s.atButtons]
           /\ nAttempts' = s.nAttempts
           /\ nLoads' = s.nLoads
           /\ nReleases' = s.nReleases
           /\ nNav' = s.nNav
           /\ frames' = frames + 1

\* any caller: any title, any directory argument
Next ==
    \E title \in Titles, directory \in Dirs, click \in Clicks :
        ShowImageSubwindow(title, directory, click)

Spec == Init /\ [][Next]_vars

\* a caller that passes the same directory string on every call
NavNext ==
    \E title \in Titles, directory \in Dirs, click \in Clicks :
        /\ last_directory \in {"", directory}
        /\ ShowImageSubwindow(title, directory, click)

SpecNav == Init /\ [][NavNext]_vars

(***************************************************************************)
(* Properties.                                                             *)
(***************************************************************************)
\* the file on disk a path names
PhysFile(p) == [dir |-> PhysDir(p.dir), stem |-> p.stem, ext |-> p.ext]

\* the statics a call made with title t reads and writes: the statics of
\* lines 133-141 belong to the function, whatever the title
StateSeenBy(t) == << last_directory, image_files, current_image_index, texture >>

\* the most recent call pressed prev at index 0 or next at the last index
NoopPress ==
    /\ call.atButtons.reached
    /\ \/ call.click = "prev" /\ call.atButtons.idx = 0
       \/ call.click = "next" /\ call.atButtons.idx + 1 = Len(image_files)

\* C1: a held texture holds the pixels of the file images[current_index] of the
\* bound directory, never those of a stale index or of an earlier directory.
C1_HeldTextureIsCurrentImage ==
    texture # 0 =>
        /\ texture \in DOMAIN gl
        /\ current_image_index < Len(image_files)
        /\ PhysFile(gl[texture]) = PhysFile(image_files[current_image_index + 1])

\* C2: a call whose directory argument differs from the bound directory
\* recomputes the image list, resets current_index to 0 (seen when no button
\* is pressed in that call) and releases the texture held on entry.
C2_DirectoryChangeResets ==
    [][ (last_directory # "" /\ call'.directory # last_directory /\ ~crashed') =>
            /\ image_files' = GetImageFiles(call'.directory)
            /\ (call'.click = "none" => current_image_index' = 0)
            /\ (texture # 0 => nReleases' = nReleases + 1) ]_vars

\* C3: at most one texture is live and it is the held one (no leak); a decode
\* is attempted only when no texture is held; every index-changing press
\* released one texture, and every release but a pending one was followed by
\* one load: k presses, k releases, k reloads after the first load.  From
\* [a, b, c] at index 0, two next presses end at index 2 with two releases
\* and, once reloaded, the texture of c.
C3_OneTextureNoLeak ==
    /\ [](/\ DOMAIN gl = (IF texture = 0 THEN {} ELSE {texture})
          /\ nReleases = nNav
          /\ nLoads = nNav + (IF texture = 0 THEN 0 ELSE 1)
          /\ (last_directory = "data" /\ nNav = 2 /\ current_image_index = 2) =>
                /\ nReleases = 2
                /\ (texture # 0 =>
                       nLoads = 3 /\ gl[texture] = Path("data", File("c", ".jpeg"))))
    /\ [][ (nAttempts' # nAttempts => texture = 0)
           /\ (current_image_index' # current_image_index =>
                  /\ texture' = 0
                  /\ DOMAIN gl' = {}
                  /\ nReleases' = nReleases + 1) ]_vars

C3_Witness ==
    /\ last_directory = "data"
    /\ image_files = GetImageFiles("data")
    /\ current_image_index = 2
    /\ nNav = 2
    /\ nReleases = 2
    /\ nLoads = 3
    /\ texture # 0
    /\ gl[texture] = Path("data", File("c", ".jpeg"))

\* C4: with a non-empty image list current_index is in [0, length); with an
\* empty one it keeps its initial value and no texture is created or released.
C4_IndexInRange ==
    /\ image_files # << >> =>
           current_image_index \in 0..(Len(image_files) - 1)
    /\ image_files = << >> =>
           /\ current_image_index = 0
           /\ nNav = 0
           /\ nAttempts = 0
           /\ nLoads = 0
           /\ nReleases = 0
           /\ texture = 0
           /\ DOMAIN gl = {}

C4_Witness ==
    /\ last_directory = "empty"
    /\ image_files = << >>
    /\ call.click = "next"
    /\ call.atButtons.reached
    /\ current_image_index = 0
    /\ frames >= 2

\* C5: a failed load leaves the texture none and the index unchanged, and a
\* later call with the same directory and no button press attempts no load.
C5_FailedLoadNotRetried ==
    [][ /\ call'.failed => (texture' = 0 /\ current_image_index' = current_image_index)
        /\ (call.failed /\ call'.directory = last_directory /\ call'.click = "none") =>
               nAttempts' = nAttempts ]_vars

\* C6: a call made with one title leaves the directory, image list, index and
\* texture of the widget of every other title unchanged.
C6_TitlesDoNotShareState ==
    [][ \A t \in Titles : call'.title # t => StateSeenBy(t)' = StateSeenBy(t) ]_vars

\* C7: the thumbnail width is never computed with a zero native height.
C7_NoZeroHeightDivision ==
    call.fixed_width.kind # "none" => call.fixed_width.den # 0

\* C8: prev pressed at index 0, or next pressed at the last index, leaves the
\* index, the held texture and the texture objects as they were when the
\* buttons were reached, releases nothing, and the following call with the
\* same directory attempts no load.
C8_BoundaryPressIsNoop ==
    /\ [](NoopPress =>
            /\ current_image_index = call.atButtons.idx
            /\ texture = call.atButtons.texture
            /\ gl = call.atButtons.gl
            /\ nReleases = call.atButtons.nReleases)
    /\ [][ (NoopPress /\ call'.directory = last_directory) =>
               (nAttempts' = nAttempts /\ nLoads' = nLoads) ]_vars

C8_Witness ==
    /\ NoopPress
    /\ call.click = "next"
    /\ last_directory = "data"
    /\ current_image_index = 2
    /\ texture # 0
    /\ nNav = 2

\* C9: after a failed load, pressing next with i + 1 < n, or prev with i > 0,
\* in a call with the same directory changes current_index.
C9_NavigationAfterFailedLoad ==
    [][ ( /\ call.failed
          /\ call'.directory = last_directory
          /\ \/ call'.click = "next" /\ current_image_index + 1 < Len(image_files)
             \/ call'.click = "prev" /\ current_image_index > 0 ) =>
            current_image_index' # current_image_index ]_vars

\* C10: every read image_files[current_image_index] made by a call uses an
\* index below image_files.size().
C10_ReadsInBounds == \A r \in call.reads : r[1] < r[2]

=============================================================================
